---------------------------- MODULE Spec2Model ----------------------------
(***************************************************************************)
(* A model of scrape.py: the job extractor (extract_job_data), the         *)
(* validator (validate_scraped_data), the spreadsheet exporter             *)
(* (save_jobs_to_excel, format_excel_worksheet, create_summary_sheet) and  *)
(* the run (scrape_jobs).                                                  *)
(*                                                                         *)
(* Text is modelled as a sequence of chunks (short strings): a regular     *)
(* expression or a substring test works on chunks instead of characters,   *)
(* and the chunks are concatenated where the code returns a string.        *)
(***************************************************************************)
EXTENDS Integers, Sequences, FiniteSets, TLC

VARIABLES
    pc,          \* position of the running function
    caller,      \* "scrape_jobs" or "direct": who called save_jobs_to_excel
    now,         \* the wall clock, in seconds after a fixed instant
    job_section, \* the posting section handed to a single extract_job_data call
    job_data,    \* what that call returned
    page,        \* the posting sections of the page the server holds
    requests,    \* number of HTTP GETs issued
    parsed,      \* whether BeautifulSoup has parsed a response
    i,           \* the loop index of scrape_jobs (1-based)
    jobs_data,   \* the JobCollection built by scrape_jobs / given to the exporter
    healthy,     \* what validate_scraped_data returned: "True" or "False"
                 \* ("unset" before the call)
    log,         \* the kinds of diagnostic lines printed so far
    save_calls,  \* the collections save_jobs_to_excel was invoked with
    filename,    \* the exporter's filename parameter, then the name it uses
    df,          \* the exporter's DataFrame (a sequence of rows)
    workbook,    \* the in-memory workbook of the ExcelWriter
    disk,        \* the output file on disk
    result       \* what the running function returned ("unset" before)

vars == <<pc, caller, now, job_section, job_data, page, requests, parsed, i,
          jobs_data, healthy, log, save_calls, filename, df, workbook, disk,
          result>>

-----------------------------------------------------------------------------
(* Bounds of the model *)

MaxSections == 5
MaxJobs == 3
MaxBlocks == 4
MaxTextLen == 4
MaxClock == 1

-----------------------------------------------------------------------------
(* Values *)

\* Python's None in a place that otherwise holds a string.
None == "<None>"

\* extract_job_data's "return None": the skip signal.
SkipSignal == [skip |-> TRUE]

BASE_URL == "https://techversantinfotech.com/talent/"

\* An element a find() did not find.
NoElem == [present |-> FALSE, text |-> ""]

Elem(t) == [present |-> TRUE, text |-> t]

RECURSIVE Concat(_)
\* The string made of the chunks of a text.
Concat(chunks) ==
    IF chunks = <<>> THEN "" ELSE Head(chunks) \o Concat(Tail(chunks))

RECURSIVE Join(_, _)
\* sep.join(strs)
Join(sep, strs) ==
    IF strs = <<>> THEN ""
    ELSE IF Len(strs) = 1 THEN strs[1]
    ELSE strs[1] \o sep \o Join(sep, Tail(strs))

\* datetime.strftime('%Y-%m-%d %H:%M:%S') of the clock value t (t < 10).
Strftime(t) == "2025-01-01 00:00:0" \o ToString(t)


-----------------------------------------------------------------------------
(* Regular expressions over chunks: re.search(pattern, text, re.IGNORECASE) *)

\* str.lower() on the chunks that have an upper-case form in the model.
Lower(c) ==
    CASE c = "Minimum" -> "minimum"
      [] c = "Years" -> "years"
      [] c = "Experience" -> "experience"
      [] OTHER -> c

Digit == {"0", "1", "2", "3", "4", "5", "6", "7", "8", "9"}

Space == {" "}

\* One atom of a pattern: a class of chunks, with its quantifier.
One(cls) == [cls |-> cls, min |-> 1, many |-> FALSE]

Opt(cls) == [cls |-> cls, min |-> 0, many |-> FALSE]

Star(cls) == [cls |-> cls, min |-> 0, many |-> TRUE]

Plus(cls) == [cls |-> cls, min |-> 1, many |-> TRUE]

\* Whether chunk c is in the class, ignoring case when ic.
InClass(c, cls, ic) ==
    IF ic THEN \E l \in cls : Lower(l) = Lower(c) ELSE c \in cls

RECURSIVE RunLen(_, _, _, _)
\* How many chunks of text, from position pos on, are in the class.
RunLen(text, pos, cls, ic) ==
    IF pos > Len(text) \/ ~InClass(text[pos], cls, ic) THEN 0
    ELSE 1 + RunLen(text, pos + 1, cls, ic)

RECURSIVE MatchAt(_, _, _, _, _)
RECURSIVE TryCount(_, _, _, _, _, _)
\* The backtracking matcher: atoms k.. of pat against text from pos on.  The
\* position after the match, or 0 when there is none.  A quantifier is
\* greedy: the longest run is tried first.
MatchAt(pat, k, text, pos, ic) ==
    IF k > Len(pat) THEN pos
    ELSE LET a == pat[k]
             run == RunLen(text, pos, a.cls, ic)
             most == IF a.many \/ run = 0 THEN run ELSE 1
         IN  TryCount(pat, k, text, pos, most, ic)

TryCount(pat, k, text, pos, c, ic) ==
    IF c < pat[k].min THEN 0
    ELSE LET r == MatchAt(pat, k + 1, text, pos + c, ic)
         IN  IF r # 0 THEN r ELSE TryCount(pat, k, text, pos, c - 1, ic)

NoMatch == [found |-> FALSE, start |-> 0, stop |-> 0]

RECURSIVE SearchFrom(_, _, _, _)
\* re.search: the leftmost match.
SearchFrom(pat, text, s, ic) ==
    IF s > Len(text) THEN NoMatch
    ELSE LET e == MatchAt(pat, 1, text, s, ic)
         IN  IF e # 0 THEN [found |-> TRUE, start |-> s, stop |-> e - 1]
             ELSE SearchFrom(pat, text, s + 1, ic)

re_search(pat, text, ic) == SearchFrom(pat, text, 1, ic)

\* match.group(0)
group0(text, m) == Concat(SubSeq(text, m.start, m.stop))

experience_patterns ==
    << <<Plus(Digit), Opt({"+"}), Star(Space), One({"years", "year"}),
         Star(Space), One({"of"}), Star(Space), One({"experience"})>>,
       <<One({"Minimum"}), Star(Space), One({"of"}), Star(Space),
         Plus(Digit), Star(Space), One({"years"})>>,
       <<Plus(Digit), One({"+"}), Star(Space), One({"years", "year"}),
         Star(Space), One({"in"})>>,
       <<One({"minimum"}), Star(Space), Plus(Digit), Star(Space),
         One({"years"})>> >>

RECURSIVE experience_loop_last(_, _)
\* The loop without its break: the last pattern that matches decides.
experience_loop_last(full_text, k) ==
    IF k > Len(experience_patterns) THEN None
    ELSE LET experience_match == re_search(experience_patterns[k], full_text, TRUE)
             later == experience_loop_last(full_text, k + 1)
         IN  IF later # None THEN later
             ELSE IF experience_match.found THEN group0(full_text, experience_match)
             ELSE None

RECURSIVE experience_loop(_, _)
\* The for loop over experience_patterns from index k on: the first pattern
\* that matches decides (break); None when the loop runs out.
experience_loop(full_text, k) ==
    IF k > Len(experience_patterns) THEN None
    ELSE LET experience_match == re_search(experience_patterns[k], full_text, TRUE)
         IN  IF experience_match.found THEN group0(full_text, experience_match)
             ELSE experience_loop(full_text, k + 1)

ExperienceRequired(full_text) ==
    LET experience_found == experience_loop(full_text, 1)
    IN  IF experience_found # None /\ experience_found # ""
        THEN experience_found ELSE ""

-----------------------------------------------------------------------------
(* Skills *)

SkillKeywords ==
    <<"Preferred Skills", "Required Skills", "Must-Have Skills", "Technical Stack">>

\* keyword in text, on chunks: some chunk of the text is the keyword.
Contains(text, keyword) == \E j \in 1..Len(text) : text[j] = keyword

\* The filter of find_all('strong', string=lambda text: text and any(...)):
\* the block holds a strong element with a single string, and the string
\* contains one of the keywords.
IsSkillsHeading(block) ==
    /\ block.tag = "p"
    /\ block.hasString
    /\ block.text # <<>>
    /\ \E n \in 1..Len(SkillKeywords) : Contains(block.text, SkillKeywords[n])

RECURSIVE find_next_sibling_ul(_, _)
\* parent.find_next_sibling('ul') of block b: the index of the first ul after
\* it among its siblings, 0 when there is none.
find_next_sibling_ul(blocks, b) ==
    IF b + 1 > Len(blocks) THEN 0
    ELSE IF blocks[b + 1].tag = "ul" THEN b + 1
    ELSE find_next_sibling_ul(blocks, b + 1)

RECURSIVE all_skills_first(_, _)
\* find in place of find_all: only the first skills heading is read.
all_skills_first(blocks, b) ==
    IF b > Len(blocks) THEN <<>>
    ELSE IF IsSkillsHeading(blocks[b])
         THEN (IF find_next_sibling_ul(blocks, b) # 0
               THEN blocks[find_next_sibling_ul(blocks, b)].items ELSE <<>>)
         ELSE all_skills_first(blocks, b + 1)

RECURSIVE all_skills_from(_, _)
\* The loop over skills_sections, in document order, from block b on.
all_skills_from(blocks, b) ==
    IF b > Len(blocks) THEN <<>>
    ELSE LET skills_list == find_next_sibling_ul(blocks, b)
             skills == IF IsSkillsHeading(blocks[b]) /\ skills_list # 0
                       THEN blocks[skills_list].items ELSE <<>>
         IN  skills \o all_skills_from(blocks, b + 1)

SkillsRequired(blocks) ==
    LET all_skills == all_skills_from(blocks, 1)
    IN  IF all_skills # <<>> THEN Join("; ", all_skills) ELSE ""

-----------------------------------------------------------------------------
(* extract_job_data *)

\* The keys of job_data, in the order the code assigns them.
FieldOrder ==
    <<"JobTitle", "JobCategory", "Location", "JobURL", "JobID", "PostingDate",
      "JobDescriptionSummary", "ExperienceRequired", "SkillsRequired",
      "ContactEmail", "CompanyBenefits", "Salary", "ScrapedDate", "SourceURL">>

AllFields == {FieldOrder[k] : k \in 1..Len(FieldOrder)}

FieldIndex(f) == CHOOSE k \in 1..Len(FieldOrder) : FieldOrder[k] = f

\* elem.get_text(strip=True) if elem else ''
TextOrEmpty(elem) == IF elem.present THEN elem.text ELSE ""

\* The element after a labelled heading: heading.parent.find_next_sibling('p')
AfterHeading(h) == IF h.heading THEN TextOrEmpty(h.para) ELSE ""

RECURSIVE Replace(_, _)
\* str.replace(old, ''), on chunks.
Replace(chunks, old) ==
    IF chunks = <<>> THEN <<>>
    ELSE (IF Head(chunks) = old THEN <<>> ELSE <<Head(chunks)>>)
         \o Replace(Tail(chunks), old)

\* The value the code assigns to job_data[f].
FieldValue(s, t, f) ==
    CASE f = "JobTitle" -> TextOrEmpty(s.title)
      [] f = "JobCategory" -> TextOrEmpty(s.category)
      [] f = "Location" -> TextOrEmpty(s.location)
      [] f = "JobURL" -> IF s.apply.present THEN s.apply.href ELSE ""
      [] f = "JobID" -> IF s.apply.present THEN s.apply.datatitle ELSE ""
      [] f = "PostingDate" -> TextOrEmpty(s.posting)
      [] f = "JobDescriptionSummary" -> AfterHeading(s.desc)
      [] f = "ExperienceRequired" -> ExperienceRequired(s.full_text)
      [] f = "SkillsRequired" -> SkillsRequired(s.blocks)
      [] f = "ContactEmail" ->
            IF s.email.present THEN Concat(Replace(s.email.href, "mailto:")) ELSE ""
      [] f = "CompanyBenefits" -> AfterHeading(s.benefits)
      [] f = "Salary" -> ""
      [] f = "ScrapedDate" -> Strftime(t)
      [] f = "SourceURL" -> BASE_URL

\* The keys assigned when the try block is left: all of them when nothing
\* raises, those before the step that raises otherwise.
Assigned(s) ==
    IF s.fault = "none" THEN AllFields
    ELSE {f \in AllFields : FieldIndex(f) < FieldIndex(s.fault)}

\* The except clauses returning the dict as far as it was filled.
OnExtractionError_partial(partial) == partial

\* What the except clauses return: None, dropping what was assigned.
OnExtractionError(partial) == SkipSignal

extract_job_data(s, t) ==
    LET partial == [f \in Assigned(s) |-> FieldValue(s, t, f)]
    IN  IF s.fault = "none" THEN partial ELSE OnExtractionError(partial)


-----------------------------------------------------------------------------
(* validate_scraped_data *)

essential_fields == <<"JobTitle", "JobCategory", "Location">>

\* The completion rate, in percent, below which the validator warns.
Threshold == 80

\* Python's truth value of a field value: neither None nor ''.
Truthy(v) == v # None /\ v # ""

\* job.get(field): None when the key is missing.
Get(job, field) == IF field \in DOMAIN job THEN job[field] ELSE None

\* all(job.get(field) for field in essential_fields)
IsComplete(job) ==
    \A k \in 1..Len(essential_fields) : Truthy(Get(job, essential_fields[k]))

RECURSIVE complete_jobs(_)
\* The counting loop.
complete_jobs(jobs) ==
    IF jobs = <<>> THEN 0
    ELSE (IF IsComplete(Head(jobs)) THEN 1 ELSE 0) + complete_jobs(Tail(jobs))

\* The comparison with <= in place of <.
LowCompletion_inclusive(complete, total) == complete * 100 <= Threshold * total

\* completion_rate < 80, where completion_rate = (complete / total) * 100.
\* The quotient is compared exactly: complete * 100 < 80 * total.
LowCompletion(complete, total) == complete * 100 < Threshold * total

\* The value validate_scraped_data returns.
validate_scraped_data(jobs) ==
    IF jobs = <<>> THEN FALSE
    ELSE ~LowCompletion(complete_jobs(jobs), Len(jobs))

\* The warnings validate_scraped_data prints.
validate_warnings(jobs) ==
    IF jobs = <<>> THEN {"no_jobs_found"}
    ELSE IF LowCompletion(complete_jobs(jobs), Len(jobs))
         THEN {"low_completion_rate"} ELSE {}

-----------------------------------------------------------------------------
(* save_jobs_to_excel, format_excel_worksheet, create_summary_sheet *)

column_order ==
    <<"JobTitle", "JobCategory", "Location", "ExperienceRequired",
      "PostingDate", "JobDescriptionSummary", "SkillsRequired",
      "ContactEmail", "CompanyBenefits", "Salary", "JobURL",
      "JobID", "ScrapedDate", "SourceURL">>

DefaultFilename == <<"Techversant_Jobs", ".xlsx">>

\* The file name the exporter uses: the default when none is given, and
\* '.xlsx' appended when the name does not end with it.  A name is a
\* sequence of chunks; <<>> stands for filename=None.
ResolveFilename(name) ==
    LET given == IF name = <<>> THEN DefaultFilename ELSE name
    IN  IF given[Len(given)] = ".xlsx" THEN given ELSE Append(given, ".xlsx")

\* df.columns of pd.DataFrame(jobs_data): every key of every dict.
FrameColumns(jobs) == UNION {DOMAIN jobs[k] : k \in 1..Len(jobs)}

RECURSIVE SelectSeq2(_, _)
\* [col for col in cols if col in keep]
SelectSeq2(cols, keep) ==
    IF cols = <<>> THEN <<>>
    ELSE (IF Head(cols) \in keep THEN <<Head(cols)>> ELSE <<>>)
         \o SelectSeq2(Tail(cols), keep)

existing_columns(jobs) == SelectSeq2(column_order, FrameColumns(jobs))

\* df.replace('', None) of one cell; a key a dict lacks is a blank cell too.
BlankIfEmpty(v) == IF v = "" THEN None ELSE v

\* The DataFrame after line 153: one row per dict, in order, restricted to
\* the existing columns, '' replaced by None.
BuildFrame(jobs) ==
    LET cols == existing_columns(jobs)
    IN  [k \in 1..Len(jobs) |->
            [c \in {cols[n] : n \in 1..Len(cols)} |-> BlankIfEmpty(Get(jobs[k], c))]]

\* to_excel with header=False: the data rows only.
JobsSheet_no_header(cols, frame) ==
    [k \in 1..Len(frame) |-> [n \in 1..Len(cols) |-> frame[k][cols[n]]]]

\* df.to_excel(writer, sheet_name='Jobs', index=False): the header row, then
\* one row per row of the frame; a row is the sequence of its cells.
JobsSheet(cols, frame) ==
    <<cols>> \o [k \in 1..Len(frame) |-> [n \in 1..Len(cols) |-> frame[k][cols[n]]]]

Max(a, b) == IF a >= b THEN a ELSE b

Min(a, b) == IF a <= b THEN a ELSE b

\* len(str(cell.value)) when cell.value is truthy, else 0.
CellLength(v) == IF Truthy(v) THEN Len(v) ELSE 0

RECURSIVE max_length(_, _, _)
\* The longest cell of column n, over rows k.. of the sheet.
max_length(sheet, n, k) ==
    IF k > Len(sheet) THEN 0
    ELSE Max(CellLength(sheet[k][n]), max_length(sheet, n, k + 1))

\* format_excel_worksheet: the styles it sets and the widths it computes.
format_excel_worksheet(sheet, frame) ==
    [header_styled |-> TRUE,
     borders |-> TRUE,
     widths |-> [n \in 1..Len(sheet[1]) |->
                    Min(Max(max_length(sheet, n, 1) + 2, 15), 80)],
     tall_rows |-> 2..(Len(frame) + 1)]

Unformatted == [header_styled |-> FALSE, borders |-> FALSE, widths |-> <<>>,
                tall_rows |-> {}]

\* len(df) in place of the count of a value.
CountOf_total(frame, col, v) == Len(frame)

\* The number of rows of the frame that hold value v in column col.
CountOf(frame, col, v) == Cardinality({k \in 1..Len(frame) : frame[k][col] = v})

RECURSIVE Uniques(_, _, _)
\* The distinct non-null values of a column, in order of first appearance
\* (value_counts drops the blank cells: dropna=True).
Uniques(frame, col, k) ==
    IF k > Len(frame) THEN <<>>
    ELSE LET v == frame[k][col]
             seen == \E j \in 1..(k - 1) : frame[j][col] = v
         IN  (IF v = None \/ seen THEN <<>> ELSE <<v>>) \o Uniques(frame, col, k + 1)

RECURSIVE InsertByCount(_, _, _, _)
\* v inserted into vs, which is sorted by count descending, after every
\* value whose count is at least v's.
InsertByCount(frame, col, vs, v) ==
    IF vs = <<>> THEN <<v>>
    ELSE IF CountOf(frame, col, Head(vs)) >= CountOf(frame, col, v)
         THEN <<Head(vs)>> \o InsertByCount(frame, col, Tail(vs), v)
         ELSE <<v>> \o vs

RECURSIVE SortByCount(_, _, _)
SortByCount(frame, col, vs) ==
    IF vs = <<>> THEN <<>>
    ELSE InsertByCount(frame, col, SortByCount(frame, col, SubSeq(vs, 1, Len(vs) - 1)),
                       vs[Len(vs)])

\* df[col].value_counts(): the distinct values with their counts, by count
\* descending.
value_counts(frame, col) ==
    LET vs == SortByCount(frame, col, Uniques(frame, col, 1))
    IN  [n \in 1..Len(vs) |-> <<vs[n], CountOf(frame, col, vs[n])>>]

\* The rows a breakdown adds to summary_data: [f'  {value}', count].
BreakdownRows(cols, frame, col) ==
    IF \E n \in 1..Len(cols) : cols[n] = col
    THEN LET counts == value_counts(frame, col)
         IN  [n \in 1..Len(counts) |-> <<"  " \o counts[n][1], counts[n][2]>>]
    ELSE <<>>

\* create_summary_sheet: the rows of the Summary sheet.
summary_data(cols, frame, t) ==
    << <<"Metric", "Value">>,
       <<"Total Jobs", Len(frame)>>,
       <<"Scraping Date", Strftime(t)>>,
       <<"Source", "Techversant Infotech">>,
       <<"Source URL", BASE_URL>>,
       <<"">>,
       <<"Jobs by Category", "">> >>
    \o BreakdownRows(cols, frame, "JobCategory")
    \o << <<"">>, <<"Jobs by Location", "">> >>
    \o BreakdownRows(cols, frame, "Location")


-----------------------------------------------------------------------------
(* Posting sections *)

\* A block of the section's body: a paragraph (with the single string of its
\* strong element, when it has one) or a list with its items.
Para(text) == [tag |-> "p", hasString |-> TRUE, text |-> text, items |-> <<>>]

PlainPara == [tag |-> "p", hasString |-> FALSE, text |-> <<>>, items |-> <<>>]

List(items) == [tag |-> "ul", hasString |-> FALSE, text |-> <<>>, items |-> items]

NoLink == [present |-> FALSE, href |-> "", datatitle |-> ""]

NoEmail == [present |-> FALSE, href |-> <<>>]

NoHeading == [heading |-> FALSE, para |-> NoElem]

\* A posting with every piece of markup the extractor looks for.
BaseSection ==
    [title |-> Elem("QA Engineer"),
     category |-> Elem("Engineering"),
     location |-> Elem("Kochi"),
     apply |-> [present |-> TRUE, href |-> "https://techversantinfotech.com/apply/17",
                datatitle |-> "17"],
     posting |-> Elem("Posted on 01 Jan 2025"),
     desc |-> [heading |-> TRUE, para |-> Elem("We value ownership.")],
     full_text |-> <<"5", "+", " ", "years", " ", "of", " ", "experience", " ", "required">>,
     blocks |-> <<Para(<<"Required Skills", ":">>), List(<<"Python", "SQL">>)>>,
     email |-> [present |-> TRUE, href |-> <<"mailto:", "hr@techversantinfotech.com">>],
     benefits |-> [heading |-> TRUE, para |-> Elem("Health insurance")],
     fault |-> "none"]

\* The postings the modelled pages are made of: two complete ones that differ
\* in category and location, one without category and location elements, and
\* one whose extraction raises.
SampleSections ==
    { BaseSection,
      [BaseSection EXCEPT !.title = Elem("Test Lead"), !.category = Elem("QA"),
                          !.location = Elem("Trivandrum"), !.benefits = NoHeading],
      [BaseSection EXCEPT !.category = NoElem, !.location = NoElem,
                          !.full_text = <<"Minimum", " ", "3", " ", "years">>],
      [BaseSection EXCEPT !.fault = "JobDescriptionSummary"] }

Pages == UNION {[1..n -> SampleSections] : n \in 0..MaxSections}

\* The records of the sample postings that extract.
SampleRecords ==
    {extract_job_data(s, 0) : s \in {x \in SampleSections : x.fault = "none"}}

Collections == UNION {[1..n -> SampleRecords] : n \in 0..MaxJobs}

\* The shapes of a posting: each optional piece of markup present or absent.
ShapeSections ==
    [title : {NoElem, Elem("QA Engineer")},
     category : {NoElem, Elem("Engineering")},
     location : {NoElem, Elem("Kochi")},
     apply : {NoLink, [present |-> TRUE, href |-> None, datatitle |-> None],
              BaseSection.apply},
     posting : {NoElem, BaseSection.posting},
     desc : {NoHeading, [heading |-> TRUE, para |-> NoElem], BaseSection.desc},
     full_text : {<<>>, BaseSection.full_text},
     blocks : {<<>>, BaseSection.blocks},
     email : {NoEmail, BaseSection.email},
     benefits : {NoHeading, [heading |-> TRUE, para |-> NoElem], BaseSection.benefits},
     fault : {"none", "JobDescriptionSummary", "SkillsRequired"}]

\* The blocks a section body is made of in the skills model.
BlockKinds ==
    { Para(<<"Required Skills">>), Para(<<"Required Skills", ":">>),
      Para(<<"Technical Stack">>), Para(<<"required skills">>),
      Para(<<"Responsibilities">>), PlainPara,
      List(<<"A", "B">>), List(<<"C">>), List(<<>>) }

BlockSeqs == UNION {[1..n -> BlockKinds] : n \in 0..MaxBlocks}

\* The chunks a section text is made of in the experience model.
TextChunks == {"5", "+", " ", "years", "of", "experience", "Minimum", "in"}

Texts == UNION {[1..n -> TextChunks] : n \in 0..MaxTextLen}

\* Longer texts: the posting's own, one where the fourth pattern matches
\* before the first, and one where the second pattern matches before the
\* first and with more text.
ExampleTexts ==
    { BaseSection.full_text,
      <<"Minimum", "5", "years", "of", "experience">>,
      <<"Minimum", " ", "of", " ", "3", " ", "years", ";", "5", "years", "of",
        "experience">>,
      <<"5", "+", " ", "years", " ", "in", " ", "QA", ";", "minimum", " ", "5",
        " ", "years">> }

-----------------------------------------------------------------------------
(* Initial states *)

Unset == [unset |-> TRUE]

EmptyBook == [sheets |-> <<>>, Jobs |-> <<>>, format |-> Unformatted, Summary |-> <<>>]

NoFile == [state |-> "absent", name |-> <<>>, book |-> EmptyBook]

\* Nothing has run.
Idle ==
    /\ job_data = Unset
    /\ requests = 0
    /\ parsed = FALSE
    /\ i = 0
    /\ healthy = "unset"
    /\ log = {}
    /\ df = <<>>
    /\ workbook = EmptyBook
    /\ disk = NoFile
    /\ result = "unset"

\* A run of scrape_jobs against a page.
Init ==
    /\ Idle
    /\ pc = "start"
    /\ caller = "scrape_jobs"
    /\ now = 0
    /\ job_section = Unset
    /\ page \in Pages
    /\ jobs_data = <<>>
    /\ save_calls = <<>>
    /\ filename = <<>>

\* A call of save_jobs_to_excel(jobs_data, filename).
InitSave ==
    /\ Idle
    /\ pc = "save_entry"
    /\ caller = "direct"
    /\ now = 0
    /\ job_section = Unset
    /\ page = <<>>
    /\ jobs_data \in Collections
    /\ save_calls = <<jobs_data>>
    /\ filename \in {<<>>, <<"out">>, <<"out", ".xlsx">>}

\* A call of extract_job_data(job_section).
InitCall(sections, clocks) ==
    /\ Idle
    /\ pc = "extract"
    /\ caller = "direct"
    /\ now \in clocks
    /\ job_section \in sections
    /\ page = <<>>
    /\ jobs_data = <<>>
    /\ save_calls = <<>>
    /\ filename = <<>>

InitExtract == InitCall(ShapeSections, 0..MaxClock)

InitSkills == InitCall({[BaseSection EXCEPT !.blocks = b] : b \in BlockSeqs}, {0})

InitExperience ==
    InitCall({[BaseSection EXCEPT !.full_text = t] : t \in Texts \cup ExampleTexts},
             {0})


-----------------------------------------------------------------------------
(* extract_job_data, called on its own *)

ExtractOne ==
    /\ pc = "extract"
    /\ job_data' = extract_job_data(job_section, now)
    /\ pc' = "extracted"
    /\ UNCHANGED <<caller, now, job_section, page, requests, parsed, i, jobs_data,
                   healthy, log, save_calls, filename, df, workbook, disk, result>>

-----------------------------------------------------------------------------
(* scrape_jobs *)

FetchOutcomes == {"ok", "connection_error", "timeout", "http_error"}

\* The GET without raise_for_status(): the body of an error response is parsed.
Fetch_ignoring_status ==
    /\ pc = "start"
    /\ requests' = requests + 1
    /\ \E outcome \in FetchOutcomes :
          IF outcome \in {"ok", "http_error"}
          THEN /\ pc' = "parse"
               /\ log' = IF outcome = "ok" THEN log ELSE log \cup {"error_fetching"}
               /\ UNCHANGED result
          ELSE /\ log' = log \cup {"error_fetching"}
               /\ result' = None
               /\ pc' = "done"
    /\ UNCHANGED <<caller, now, job_section, job_data, page, parsed, i, jobs_data,
                   healthy, save_calls, filename, df, workbook, disk>>

\* requests.get(BASE_URL, headers=headers, timeout=30); raise_for_status().
\* Any failure is a requests.RequestException: it is reported and the
\* function returns None.
Fetch ==
    /\ pc = "start"
    /\ requests' = requests + 1
    /\ \E outcome \in FetchOutcomes :
          IF outcome = "ok"
          THEN /\ pc' = "parse"
               /\ UNCHANGED <<log, result>>
          ELSE /\ log' = log \cup {"error_fetching"}
               /\ result' = None
               /\ pc' = "done"
    /\ UNCHANGED <<caller, now, job_section, job_data, page, parsed, i, jobs_data,
                   healthy, save_calls, filename, df, workbook, disk>>

\* BeautifulSoup(...), check_pagination (advisory, it only prints), and
\* find_all('section', class_='crr_app_stt') with the early return.
Parse ==
    /\ pc = "parse"
    /\ parsed' = TRUE
    /\ IF page = <<>>
       THEN /\ log' = log \cup {"no_job_sections"}
            /\ result' = None
            /\ pc' = "done"
            /\ UNCHANGED <<i, jobs_data>>
       ELSE /\ jobs_data' = <<>>
            /\ i' = 1
            /\ pc' = "loop"
            /\ UNCHANGED <<log, result>>
    /\ UNCHANGED <<caller, now, job_section, job_data, page, requests, healthy,
                   save_calls, filename, df, workbook, disk>>

\* The loop appending whatever extract_job_data returned.
IsRecord_always(d) == TRUE

\* 'if job_data:' - a dict is true when it has a key.
IsRecord(d) == d # SkipSignal /\ DOMAIN d # {}

\* One iteration of the for loop over job_sections.
ExtractStep ==
    /\ pc = "loop"
    /\ i <= Len(page)
    /\ LET d == extract_job_data(page[i], now)
       IN  /\ job_data' = d
           /\ IF IsRecord(d)
              THEN /\ jobs_data' = Append(jobs_data, d)
                   /\ UNCHANGED log
              ELSE /\ log' = log \cup {"skipped_job"}
                   /\ UNCHANGED jobs_data
    /\ i' = i + 1
    /\ pc' = IF i = Len(page) THEN "validate" ELSE "loop"
    /\ UNCHANGED <<caller, now, job_section, page, requests, parsed, healthy,
                   save_calls, filename, df, workbook, disk, result>>

\* 'if not validate_scraped_data(jobs_data): print(...)'
Validate ==
    /\ pc = "validate"
    /\ healthy' = IF validate_scraped_data(jobs_data) THEN "True" ELSE "False"
    /\ log' = log \cup validate_warnings(jobs_data)
                  \cup (IF validate_scraped_data(jobs_data) THEN {}
                        ELSE {"validation_concerns"})
    /\ pc' = "decide"
    /\ UNCHANGED <<caller, now, job_section, job_data, page, requests, parsed, i,
                   jobs_data, save_calls, filename, df, workbook, disk, result>>

\* The exporter called without the 'if jobs_data:' test.
ExportWanted_always(jobs, ok) == TRUE

\* 'if jobs_data:' whether the exporter is called, whatever the validator
\* returned.
ExportWanted(jobs, ok) == jobs # <<>>

Decide ==
    /\ pc = "decide"
    /\ IF ExportWanted(jobs_data, healthy)
       THEN /\ save_calls' = Append(save_calls, jobs_data)
            /\ filename' = <<>>
            /\ pc' = "save_entry"
            /\ UNCHANGED <<log, result>>
       ELSE /\ log' = log \cup {"no_job_data"}
            /\ result' = None
            /\ pc' = "done"
            /\ UNCHANGED <<save_calls, filename>>
    /\ UNCHANGED <<caller, now, job_section, job_data, page, requests, parsed, i,
                   jobs_data, healthy, df, workbook, disk>>

-----------------------------------------------------------------------------
(* save_jobs_to_excel *)

\* An exception leaves save_jobs_to_excel: inside its try block it is
\* reported and raised again.  scrape_jobs catches it, reports it and
\* returns None; a direct caller sees the exception.
Propagate(exc, in_try) ==
    /\ log' = log \cup (IF in_try THEN {"error_saving"} ELSE {})
                  \cup (IF caller = "scrape_jobs" THEN {"unexpected_error"} ELSE {})
    /\ result' = IF caller = "scrape_jobs" THEN None ELSE exc
    /\ pc' = "done"

\* The file after the with block is left by an exception: ExcelWriter's
\* __exit__ closes the writer, which saves the workbook as it stands when it
\* has a sheet; with no sheet the save fails and the file opened at line 156
\* stays as it is.
WriterExit(book) ==
    IF book.sheets = <<>> THEN disk
    ELSE [state |-> "saved", name |-> filename, book |-> book]

\* Lines 124-134.
SaveEntry ==
    /\ pc = "save_entry"
    /\ IF jobs_data = <<>>
       THEN /\ Propagate("ValueError", FALSE)
            /\ UNCHANGED filename
       ELSE /\ filename' = ResolveFilename(filename)
            /\ pc' = "save_frame"
            /\ UNCHANGED <<log, result>>
    /\ UNCHANGED <<caller, now, job_section, job_data, page, requests, parsed, i,
                   jobs_data, healthy, save_calls, df, workbook, disk>>

\* Lines 138-153: the DataFrame.
SaveFrame ==
    /\ pc = "save_frame"
    /\ \E ok \in BOOLEAN :
          IF ok
          THEN /\ df' = BuildFrame(jobs_data)
               /\ pc' = "save_open"
               /\ UNCHANGED <<log, result>>
          ELSE /\ Propagate("Exception", TRUE)
               /\ UNCHANGED df
    /\ UNCHANGED <<caller, now, job_section, job_data, page, requests, parsed, i,
                   jobs_data, healthy, save_calls, filename, workbook, disk>>

\* Line 156: pd.ExcelWriter(filename) opens the file for writing.
SaveOpen ==
    /\ pc = "save_open"
    /\ \E ok \in BOOLEAN :
          IF ok
          THEN /\ disk' = [state |-> "empty", name |-> filename, book |-> EmptyBook]
               /\ workbook' = EmptyBook
               /\ pc' = "save_to_excel"
               /\ UNCHANGED <<log, result>>
          ELSE /\ Propagate("Exception", TRUE)
               /\ UNCHANGED <<disk, workbook>>
    /\ UNCHANGED <<caller, now, job_section, job_data, page, requests, parsed, i,
                   jobs_data, healthy, save_calls, filename, df>>

\* Line 159: df.to_excel(writer, sheet_name='Jobs', index=False).  The sheet
\* is created, then its cells are written row by row: a failure at a cell of
\* the first data row leaves the sheet with its header row.
SaveToExcel ==
    /\ pc = "save_to_excel"
    /\ \E ok \in BOOLEAN :
          IF ok
          THEN /\ workbook' = [workbook EXCEPT
                                  !.sheets = <<"Jobs">>,
                                  !.Jobs = JobsSheet(existing_columns(jobs_data), df)]
               /\ pc' = "save_format"
               /\ UNCHANGED <<log, result, disk>>
          ELSE /\ workbook' = [workbook EXCEPT
                                  !.sheets = <<"Jobs">>,
                                  !.Jobs = JobsSheet(existing_columns(jobs_data), <<>>)]
               /\ disk' = WriterExit(workbook')
               /\ Propagate("Exception", TRUE)
    /\ UNCHANGED <<caller, now, job_section, job_data, page, requests, parsed, i,
                   jobs_data, healthy, save_calls, filename, df>>

\* Line 166: format_excel_worksheet(worksheet, df).
SaveFormat ==
    /\ pc = "save_format"
    /\ \E ok \in BOOLEAN :
          IF ok
          THEN /\ workbook' = [workbook EXCEPT
                                  !.format = format_excel_worksheet(workbook.Jobs, df)]
               /\ pc' = "save_summary"
               /\ UNCHANGED <<log, result, disk>>
          ELSE /\ disk' = WriterExit(workbook)
               /\ Propagate("Exception", TRUE)
               /\ UNCHANGED workbook
    /\ UNCHANGED <<caller, now, job_section, job_data, page, requests, parsed, i,
                   jobs_data, healthy, save_calls, filename, df>>

\* Line 169: create_summary_sheet(workbook, df).  The sheet is created first
\* (line 222) and its rows are written last (lines 253-262): a failure in
\* between leaves an empty Summary sheet in the workbook.
SaveSummary ==
    /\ pc = "save_summary"
    /\ \E ok \in BOOLEAN :
          IF ok
          THEN /\ workbook' = [workbook EXCEPT
                                  !.sheets = Append(@, "Summary"),
                                  !.Summary = summary_data(existing_columns(jobs_data), df, now)]
               /\ pc' = "save_close"
               /\ UNCHANGED <<log, result, disk>>
          ELSE /\ workbook' = [workbook EXCEPT !.sheets = Append(@, "Summary")]
               /\ disk' = WriterExit(workbook')
               /\ Propagate("Exception", TRUE)
    /\ UNCHANGED <<caller, now, job_section, job_data, page, requests, parsed, i,
                   jobs_data, healthy, save_calls, filename, df>>

\* The end of the with block (the workbook is saved and the file closed),
\* lines 171-172, and in scrape_jobs lines 359-362.
SaveClose ==
    /\ pc = "save_close"
    /\ \E ok \in BOOLEAN :
          IF ok
          THEN /\ disk' = [state |-> "saved", name |-> filename, book |-> workbook]
               /\ log' = log \cup {"saved"}
                             \cup (IF caller = "scrape_jobs" THEN {"completed"} ELSE {})
               /\ result' = Concat(filename)
               /\ pc' = "done"
          ELSE /\ Propagate("Exception", TRUE)
               /\ UNCHANGED disk
    /\ UNCHANGED <<caller, now, job_section, job_data, page, requests, parsed, i,
                   jobs_data, healthy, save_calls, filename, df, workbook>>

-----------------------------------------------------------------------------
(* Specifications *)

NextSave ==
    \/ SaveEntry
    \/ SaveFrame
    \/ SaveOpen
    \/ SaveToExcel
    \/ SaveFormat
    \/ SaveSummary
    \/ SaveClose

Next ==
    \/ Fetch
    \/ Parse
    \/ ExtractStep
    \/ Validate
    \/ Decide
    \/ NextSave

\* A run of scrape_jobs.
Spec == Init /\ [][Next]_vars

\* A call of save_jobs_to_excel.
SpecSave == InitSave /\ [][NextSave]_vars

\* A call of extract_job_data on a posting of any shape.
SpecExtract == InitExtract /\ [][ExtractOne]_vars

\* A call of extract_job_data on postings that differ in their body blocks.
SpecSkills == InitSkills /\ [][ExtractOne]_vars

\* A call of extract_job_data on postings that differ in their text.
SpecExperience == InitExperience /\ [][ExtractOne]_vars


-----------------------------------------------------------------------------
(* Properties of a run of scrape_jobs *)

\* The run has left the extraction loop.
AfterLoop == parsed /\ page # <<>> /\ pc # "loop"

\* The sections among the first n of the page whose extraction does not raise.
Extractable(n) == {k \in 1..n : page[k].fault = "none"}

\* The k-th smallest element of a finite set of numbers.
Nth(S, k) == CHOOSE x \in S : Cardinality({y \in S : y < x}) = k - 1

\* The complete record of each sample posting, at each time of the clock.
FullRecord ==
    [s \in SampleSections, t \in 0..MaxClock |-> [f \in AllFields |-> FieldValue(s, t, f)]]

\* C1: in scrape_jobs a failing extraction does not halt the run: the loop
\* goes on to every later section, and the collection is exactly the records
\* of the sections that did not fail, each once, in document order.
C1_FailureIsolation ==
    /\ pc = "loop" => i \in 1..Len(page)
    /\ AfterLoop => i = Len(page) + 1
    /\ (parsed /\ page # <<>>) =>
          LET good == Extractable(i - 1)
          IN  /\ Len(jobs_data) = Cardinality(good)
              /\ \A k \in 1..Len(jobs_data) :
                    jobs_data[k] = FullRecord[page[Nth(good, k)], now]

\* A run that skipped a section between two extracted ones and went on.
C1_Witness ==
    /\ pc = "done"
    /\ Len(page) >= 3
    /\ page[1].fault = "none"
    /\ page[2].fault # "none"
    /\ page[3].fault = "none"
    /\ page[1] # page[3]
    /\ Len(jobs_data) >= 2
    /\ "skipped_job" \in log

\* The records of a collection with JobTitle, JobCategory and Location all
\* non-empty.
CompleteRecords(jobs) ==
    {k \in 1..Len(jobs) :
        jobs[k].JobTitle # "" /\ jobs[k].JobCategory # "" /\ jobs[k].Location # ""}

\* The run is past the decision to export.
PastDecide == AfterLoop /\ pc \notin {"validate", "decide"}

\* C2: the validator returns false, and warns, exactly when the collection is
\* empty or fewer than 80% of its records are complete (80% itself is
\* healthy); and whenever a record survived extraction the exporter is called
\* with the whole collection, whatever the validator returned.
C2_ValidationAdvisory ==
    /\ healthy # "unset" =>
          /\ healthy = "False" <=>
                \/ jobs_data = <<>>
                \/ 5 * Cardinality(CompleteRecords(jobs_data)) < 4 * Len(jobs_data)
          /\ healthy = "False" <=>
                log \cap {"no_jobs_found", "low_completion_rate"} # {}
    /\ (PastDecide /\ jobs_data # <<>>) => save_calls = <<jobs_data>>

\* A run whose validator returned false and whose collection was exported.
C2_Witness ==
    /\ pc = "done"
    /\ healthy = "False"
    /\ "low_completion_rate" \in log
    /\ save_calls = <<jobs_data>>
    /\ disk.state = "saved"
    /\ result = "Techversant_Jobs.xlsx"

\* Every posting of the page fails to extract (or there is none).
NothingExtractable == \A k \in 1..Len(page) : page[k].fault # "none"

\* C3: with no posting section on the page, or with every section skipped,
\* scrape_jobs returns None, never calls the exporter and creates no file.
C3_NoDataNoFile ==
    NothingExtractable =>
        /\ save_calls = <<>>
        /\ disk.state = "absent"
        /\ pc \notin {"save_entry", "save_frame", "save_open", "save_to_excel",
                      "save_format", "save_summary", "save_close"}
        /\ pc = "done" => result = None

\* A run over a page whose sections were all skipped.
C3_Witness ==
    /\ pc = "done"
    /\ parsed
    /\ Len(page) >= 2
    /\ NothingExtractable
    /\ healthy = "False"
    /\ result = None

\* The workbook is whole: both sheets, with their rows, fully formatted.
WholeBook(book) ==
    /\ book.sheets = <<"Jobs", "Summary">>
    /\ book.Jobs # <<>>
    /\ book.Summary # <<>>
    /\ book.format.header_styled
    /\ book.format.borders

\* C4: the output file is written atomically: when the run (or the call of
\* save_jobs_to_excel) is over, either the whole workbook is on disk and the
\* file name was returned, or an error was reported and there is no output
\* file.
C4_AtomicOutput ==
    pc = "done" =>
        \/ /\ result = Concat(filename)
           /\ filename # <<>>
           /\ disk.state = "saved"
           /\ WholeBook(disk.book)
        \/ /\ result \in {None, "ValueError", "Exception"}
           /\ disk.state = "absent"

\* C5: a failed GET aborts the run: one request was issued and no other,
\* nothing is parsed, extracted, validated or exported, and the result is None.
C5_FetchFailureAborts ==
    /\ requests <= 1
    /\ pc # "start" => requests = 1
    /\ "error_fetching" \in log =>
          /\ pc = "done"
          /\ requests = 1
          /\ ~parsed
          /\ job_data = Unset
          /\ jobs_data = <<>>
          /\ healthy = "unset"
          /\ save_calls = <<>>
          /\ disk.state = "absent"
          /\ result = None

\* A run whose GET failed although the page holds postings.
C5_Witness ==
    /\ "error_fetching" \in log
    /\ page # <<>>
    /\ page[1].fault = "none"
    /\ result = None


-----------------------------------------------------------------------------
(* Properties of extract_job_data *)

\* The 14 fields of a JobRecord.
RecordFields ==
    {"JobTitle", "JobCategory", "Location", "ExperienceRequired", "PostingDate",
     "JobDescriptionSummary", "SkillsRequired", "ContactEmail", "CompanyBenefits",
     "Salary", "JobURL", "JobID", "ScrapedDate", "SourceURL"}

\* The fields read from the posting.
ExtractedFields == RecordFields \ {"ScrapedDate", "SourceURL"}

\* C6: extract_job_data returns the skip signal or a record with all 14
\* fields, never a part of one; ScrapedDate and SourceURL of a record are
\* non-empty whatever the other fields are; and a posting that lacks only
\* the "What Company Offers:" heading gives a record with CompanyBenefits = ""
\* and is not skipped.
C6_CompleteRecordOrSkip ==
    pc = "extracted" =>
        /\ \/ job_data = SkipSignal
           \/ /\ DOMAIN job_data = RecordFields
              /\ Cardinality(DOMAIN job_data) = 14
              /\ job_data.ScrapedDate \notin {"", None}
              /\ job_data.SourceURL \notin {"", None}
        /\ job_section.fault # "none" => job_data = SkipSignal
        /\ (job_section.fault = "none" /\ ~job_section.benefits.heading) =>
              /\ job_data # SkipSignal
              /\ job_data.CompanyBenefits = ""

\* A posting with none of the optional markup: the record holds 14 fields,
\* every extracted one empty, and the two metadata fields.
C6_Witness ==
    /\ pc = "extracted"
    /\ job_section.fault = "none"
    /\ ~job_section.benefits.heading
    /\ DOMAIN job_data = RecordFields
    /\ \A f \in ExtractedFields : job_data[f] = ""
    /\ job_data.ScrapedDate # ""
    /\ job_data.SourceURL = BASE_URL


\* The items of the list that follows block b: those of the first ul among
\* the later siblings, none when there is no such list.
FollowingItems(blocks, b) ==
    LET later == {j \in (b + 1)..Len(blocks) : blocks[j].tag = "ul"}
    IN  IF later = {} THEN <<>>
        ELSE blocks[CHOOSE j \in later : \A l \in later : j <= l].items

RECURSIVE Flatten(_, _, _)
\* The items contributed by the headings hs, in document order, from block b on.
Flatten(blocks, hs, b) ==
    IF b > Len(blocks) THEN <<>>
    ELSE (IF b \in hs THEN FollowingItems(blocks, b) ELSE <<>>)
         \o Flatten(blocks, hs, b + 1)

\* The text is exactly one of the four keywords.
EqualsKeyword(text) == \E n \in 1..Len(SkillKeywords) : text = <<SkillKeywords[n]>>

\* The text contains one of the four keywords.
ContainsKeyword(text) ==
    \E n \in 1..Len(SkillKeywords), j \in 1..Len(text) : text[j] = SkillKeywords[n]

\* The blocks that are headings: paragraphs whose strong element has a single
\* string that is a keyword (exact) or contains one.
Headings(blocks, exact) ==
    {b \in 1..Len(blocks) :
        /\ blocks[b].tag = "p"
        /\ blocks[b].hasString
        /\ IF exact THEN EqualsKeyword(blocks[b].text)
                    ELSE ContainsKeyword(blocks[b].text)}

\* The "; "-joined items of the headings hs.
JoinedSkills(blocks, hs) ==
    LET items == Flatten(blocks, hs, 1)
    IN  IF items = <<>> THEN ""
        ELSE LET acc[n \in 1..Len(items)] ==
                     IF n = 1 THEN items[1] ELSE acc[n - 1] \o "; " \o items[n]
             IN  acc[Len(items)]

\* C8, as stated: SkillsRequired is built from exactly the headings whose
\* text equals one of the four keywords, and is the empty string when the
\* section has no such heading.
C8_HeadingsEqualKeyword ==
    pc = "extracted" =>
        LET blocks == job_section.blocks
            hs == Headings(blocks, TRUE)
        IN  /\ job_data.SkillsRequired = JoinedSkills(blocks, hs)
            /\ hs = {} => job_data.SkillsRequired = ""

\* C8, amended: SkillsRequired is built from exactly the headings whose text
\* contains one of the four keywords: each contributes the items of the list
\* that follows it, the contributions are concatenated in document order and
\* joined with "; ", and a section with no such heading gives "".
C8_HeadingsContainKeyword ==
    pc = "extracted" =>
        LET blocks == job_section.blocks
            hs == Headings(blocks, FALSE)
        IN  /\ job_data.SkillsRequired = JoinedSkills(blocks, hs)
            /\ hs = {} => job_data.SkillsRequired = ""

\* Two headings, the first with more than the keyword in its text, with the
\* items [A, B] and [C].
C8_Witness ==
    /\ pc = "extracted"
    /\ job_section.blocks = <<Para(<<"Required Skills", ":">>), List(<<"A", "B">>),
                              Para(<<"Technical Stack">>), List(<<"C">>)>>
    /\ job_data.SkillsRequired = "A; B; C"


-----------------------------------------------------------------------------
(* Properties of the experience patterns *)

\* Matching by sets of positions.  A position <<p, used>> is atom p of the
\* pattern with or without a chunk already taken by it; Len(pat) + 1 is the end.
Skips(pat, S) ==
    S \cup {<<q[1] + 1, FALSE>> : q \in {x \in S : /\ x[1] <= Len(pat)
                                                   /\ x[2] \/ pat[x[1]].min = 0}}

RECURSIVE Closure(_, _)
Closure(pat, S) == IF Skips(pat, S) = S THEN S ELSE Closure(pat, Skips(pat, S))

Take(pat, S, c) ==
    {<<q[1], TRUE>> : q \in {x \in Closure(pat, S) :
                                /\ x[1] <= Len(pat)
                                /\ \E l \in pat[x[1]].cls : Lower(l) = Lower(c)
                                /\ pat[x[1]].many \/ ~x[2]}}

RECURSIVE Positions(_, _, _)
\* The positions after the chunks of seg.
Positions(pat, S, seg) ==
    IF seg = <<>> THEN Closure(pat, S)
    ELSE Positions(pat, Take(pat, S, Head(seg)), Tail(seg))

\* The whole of seg matches the pattern, case ignored.
Matches(pat, seg) == <<Len(pat) + 1, FALSE>> \in Positions(pat, {<<1, FALSE>>}, seg)

\* The stretches <<first, last>> of the text that match pattern k.
Stretches(text, k) ==
    {se \in (1..Len(text)) \X (1..Len(text)) :
        se[1] <= se[2] /\ Matches(experience_patterns[k], SubSeq(text, se[1], se[2]))}

\* C9: ExperienceRequired is the text matched by the lowest-indexed of the
\* four patterns that matches anywhere in the section's text, case ignored,
\* wherever a later pattern matches; it is "" when none matches; and for
\* "5+ years of experience required" it is "5+ years of experience".
C9_FirstPatternWins ==
    pc = "extracted" =>
        LET text == job_section.full_text
            found == job_data.ExperienceRequired
            matching == {k \in 1..4 : Stretches(text, k) # {}}
        IN  /\ matching = {} => found = ""
            /\ matching # {} =>
                  LET k == CHOOSE m \in matching : \A n \in matching : m <= n
                  IN  \E se \in Stretches(text, k) :
                         /\ found = Concat(SubSeq(text, se[1], se[2]))
                         /\ \A other \in Stretches(text, k) : se[1] <= other[1]
            /\ text = <<"5", "+", " ", "years", " ", "of", " ", "experience", " ", "required">>
                  => found = "5+ years of experience"

\* The second pattern matches from the first chunk on, with seven chunks; the
\* first pattern matches later, with four: its text is the result.
C9_Witness ==
    /\ pc = "extracted"
    /\ Stretches(job_section.full_text, 2) = {<<1, 7>>}
    /\ Stretches(job_section.full_text, 1) = {<<9, 12>>}
    /\ job_data.ExperienceRequired = "5yearsofexperience"

-----------------------------------------------------------------------------
(* Properties of save_jobs_to_excel *)

\* save_jobs_to_excel has returned the file name.
Succeeded == pc = "done" /\ "saved" \in log

\* The rows of the saved Summary sheet whose first cell is the label.
RowsLabelled(label) ==
    {r \in 1..Len(disk.book.Summary) : disk.book.Summary[r][1] = label}

\* C7: for a collection of N >= 1 records the Jobs sheet of the saved file
\* has N + 1 rows, the header and one row per record in collection order, and
\* the Summary sheet gives N as "Total Jobs"; for an empty collection the
\* call fails with a ValueError and no file is created.
C7_RowsAndTotal ==
    /\ jobs_data = <<>> =>
          /\ disk.state = "absent"
          /\ pc = "done" => result = "ValueError"
    /\ Succeeded =>
          LET N == Len(jobs_data)
              Jobs == disk.book.Jobs
          IN  /\ N >= 1
              /\ Len(Jobs) = N + 1
              /\ Jobs[1] = column_order
              /\ \A k \in 1..N : \A n \in 1..Len(Jobs[1]) :
                    Jobs[k + 1][n] = IF jobs_data[k][Jobs[1][n]] = "" THEN None
                                     ELSE jobs_data[k][Jobs[1][n]]
              /\ Cardinality(RowsLabelled("Total Jobs")) = 1
              /\ \A r \in RowsLabelled("Total Jobs") : disk.book.Summary[r][2] = N

\* Three different records exported: four rows, "Total Jobs" 3.
C7_Witness ==
    /\ Succeeded
    /\ Len(jobs_data) = 3
    /\ Cardinality({jobs_data[k] : k \in 1..3}) = 3
    /\ Len(disk.book.Jobs) = 4
    /\ disk.book.sheets = <<"Jobs", "Summary">>

\* The rows of the two breakdowns in the saved Summary sheet.
CategoryRows ==
    LET S == disk.book.Summary
        first == CHOOSE r \in 1..Len(S) : S[r][1] = "Jobs by Category"
        next == CHOOSE r \in 1..Len(S) : S[r][1] = "Jobs by Location"
    IN  (first + 1)..(next - 2)

LocationRows ==
    LET S == disk.book.Summary
        first == CHOOSE r \in 1..Len(S) : S[r][1] = "Jobs by Location"
    IN  (first + 1)..Len(S)

\* The values of a field among the exported records.
ValuesOf(field) == {jobs_data[k][field] : k \in 1..Len(jobs_data)}

\* The breakdown in the given rows has one row for each of the values, with
\* the number of records that hold the value, and no other row.
IsBreakdown(rows, field, values) ==
    LET S == disk.book.Summary
    IN  /\ Cardinality(rows) = Cardinality(values)
        /\ \A v \in values :
              \E r \in rows :
                 /\ S[r][1] = "  " \o v
                 /\ S[r][2] = Cardinality({k \in 1..Len(jobs_data) : jobs_data[k][field] = v})

\* C10, as stated: each breakdown has one row per distinct value of the field
\* among the exported records, with its record count.
C10_RowPerValue ==
    Succeeded =>
        /\ IsBreakdown(CategoryRows, "JobCategory", ValuesOf("JobCategory"))
        /\ IsBreakdown(LocationRows, "Location", ValuesOf("Location"))

\* C10, amended: each breakdown has one row per distinct non-empty value of
\* the field among the exported records, with its record count; records whose
\* field is empty are in no row.
C10_RowPerNonEmptyValue ==
    Succeeded =>
        /\ IsBreakdown(CategoryRows, "JobCategory", ValuesOf("JobCategory") \ {""})
        /\ IsBreakdown(LocationRows, "Location", ValuesOf("Location") \ {""})

\* An export of three records: two share a category and a location, one has
\* neither.
C10_Witness ==
    /\ Succeeded
    /\ Len(jobs_data) = 3
    /\ ValuesOf("JobCategory") = {"Engineering", ""}
    /\ ValuesOf("Location") = {"Kochi", ""}
    /\ jobs_data[1] = jobs_data[3]
    /\ Cardinality(CategoryRows) = 1
    /\ Cardinality(LocationRows) = 1

=============================================================================
